---- MODULE Spec2Model ----
(***************************************************************************)
(* Model of the goru guest-side host-function bridge                       *)
(* (src/language/python/stdlib.py and src/sandbox/stdlib.py):              *)
(*   - _goru_call, the blocking call primitive;                            *)
(*   - _AsyncBatch (queue / flush) and its module-level singleton _batch;  *)
(*   - WASIEventLoop (run_until_complete / _run_once / call_soon) driving  *)
(*     asyncio tasks that issue batched and blocking calls.                *)
(* The guest program and the host are the environment: the guest chooses   *)
(* which operation a running coroutine performs next, the host chooses the *)
(* line each input() returns.  The inbound stream is never closed.         *)
(***************************************************************************)
EXTENDS Integers, Sequences, FiniteSets, TLC

(* ------------------------------ bounds -------------------------------- *)
\* batched calls issued in one process lifetime
MaxId == 3
\* blocking calls issued in one process lifetime
MaxSync == 1
\* tasks created on one event loop (task 1 is the top-level task)
MaxTasks == 2
\* run_async invocations
MaxRuns == 2
\* tasks created on the event loop when the ready queue is what is studied
MaxLoopTasks == 3
\* session commands read from the control input
MaxCmds == 3
\* statements in the code payload of one session command
MaxStmts == 2

(* --------------------------- values on the wire ----------------------- *)
\* a key that is not present in a decoded JSON object
Absent == "ABSENT"
\* Python's None
None == "None"
\* no exception stored
NoExc == "NoExc"

\* str(n) of line 29
Str(n) == ToString(n)

\* correlation ids a response line may carry: every id the batch can assign
\* (an id not assigned yet or answered already is then unknown to the batch),
\* or none
QueuedIds == {Str(i) : i \in 0..(MaxId - 1)}
LineIds == QueuedIds \cup {Absent}
Msgs == {"e"}
DataVals == {"a"}

\* An inbound line: json = FALSE is a line json.loads rejects (or one that
\* decodes to something other than an object, on which the key lookups
\* raise); otherwise the decoded object with its optional keys id, error,
\* data.
Malformed == [json |-> FALSE, id |-> Absent, error |-> Absent, data |-> Absent]
Lines ==
  {Malformed} \cup
  [json : {TRUE}, id : LineIds, error : Msgs \cup {Absent}, data : DataVals \cup {Absent}]
\* the lines the host sends in answer to a blocking call carry no id
SyncLines == {l \in Lines : l.id = Absent}

\* resp.get(key): None when the key is absent
Get(field) == IF field = Absent THEN None ELSE field
\* "error" in resp
HasError(resp) == resp.error # Absent

\* outbound frames
CallFrame(id) == [tag |-> "GORU", id |-> id, count |-> 0]
FlushFrame(n) == [tag |-> "GORU_FLUSH", id |-> Absent, count |-> n]

VARIABLES
  stderrTail,  \* the frames written to stderr after the latest flush marker
  framed,      \* the ids of all batched request frames written to stderr
  pending,     \* _batch.pending : id -> future
  next_id,     \* _batch.next_id
  task,        \* the tasks of the current event loop
  ready,       \* WASIEventLoop._ready of the current loop
  current,     \* the task whose coroutine is executing (0: none)
  pc,          \* where the single thread of control is
  runs,        \* run_async invocations so far (identifies the current loop)
  syncCalls,   \* blocking calls issued so far
  runResult,   \* how the last run_until_complete ended
  sinceDone,   \* batched request frames written since a flush last returned
  leftover,    \* the keys the last flush left in pending when it ended
  \* What the step just taken handed over; the locals of a flush live while
  \* it reads and until its caller has seen it return, then they are gone.
  wrote,       \* the frames the step just taken wrote to stderr
  lastSync,    \* what the _goru_call that just ended returned or raised
  queued,      \* what the _batch.queue that just ended returned
  lastLine,    \* the line input() returned in the step just taken, if any
  resolved,    \* the future the last pass of flush resolved, as it left it
  flushCount,  \* local `count` of flush
  flushI,      \* passes of the loop of flush so far
  flushStart,  \* the keys of pending when flush was invoked
  flushNew,    \* batched request frames written between the previous marker
               \* and the marker of this flush
  flushSeen,   \* ids answered so far in order of arrival, while flushGood
  flushGood,   \* every line so far answered another key of flushStart
  flushDone,   \* keys whose future this flush resolved
  flushStatus, \* "none" | "noop" | "reading" | "returned" | "raised"
  \* session mode
  sess,        \* "none" | "boot" | "awaiting" | "executing" | "terminated"
  namespace,   \* the shared namespace: name -> bound value
  code,        \* the statements of the command in execution still to run
  cmds,        \* session commands read so far
  lastCmd,     \* the control line read in the step just taken, if any
  lastStmt     \* the statement the step just taken ran to its end, if any

vars == <<stderrTail, framed, queued, wrote, pending, next_id, task, ready, current, pc, runs,
          syncCalls, runResult, sinceDone, leftover, flushNew, lastSync, lastLine, resolved, flushCount,
          flushI, flushStart, flushSeen, flushGood, flushDone, flushStatus,
          sess, namespace, code, cmds, lastCmd, lastStmt>>

batchVars == <<pending, next_id>>
histVars == <<sinceDone, leftover>>
loopVars == <<task, ready, current, runs, runResult>>
sessVars == <<sess, namespace, code, cmds, lastCmd, lastStmt>>

TaskIds == 1..MaxTasks
LoopTaskIds == 1..MaxLoopTasks

\* an asyncio.Future; fid tells the futures apart (the order of creation)
NewFuture(fid, loop) ==
  [fid |-> fid, state |-> "PENDING", result |-> None, exception |-> NoExc,
   callbacks |-> <<>>, loop |-> loop]
NoFuture ==
  [fid |-> -1, state |-> "NONE", result |-> None, exception |-> NoExc,
   callbacks |-> <<>>, loop |-> 0]
\* a task: got is what the future or task it awaited handed to its coroutine
\* ("value", or the kind of exception its await raised)
NoTask == [st |-> "NONE", out |-> "none", callbacks |-> <<>>, got |-> "none"]
NoOutcome == [kind |-> "none", val |-> None, exc |-> NoExc]
NoLineRead == [json |-> FALSE, id |-> "-", error |-> Absent, data |-> Absent]

\* the empty dict
EmptyMap == [k \in {} |-> NoFuture]

\* _AsyncBatch.__init__ and the module-level `_batch = _AsyncBatch()`; ids
\* are the tasks the guest program can create on one loop
Boot(ids) ==
  /\ stderrTail = <<>>
  /\ framed = {}
  /\ queued = None
  /\ wrote = <<>>
  /\ pending = EmptyMap
  /\ next_id = 0
  /\ task = [t \in ids |-> NoTask]
  /\ ready = <<>>
  /\ current = 0
  /\ pc = "top"
  /\ runs = 0
  /\ syncCalls = 0
  /\ runResult = "none"
  /\ sinceDone = 0
  /\ leftover = {}
  /\ flushNew = 0
  /\ lastSync = NoOutcome
  /\ lastLine = NoLineRead
  /\ resolved = NoFuture
  /\ flushCount = 0
  /\ flushI = 0
  /\ flushStart = {}
  /\ flushSeen = <<>>
  /\ flushGood = TRUE
  /\ flushDone = {}
  /\ flushStatus = "none"

\* session mode: names and values of the guest program, a name without
\* binding, and the lines of the control input
Names == {"x", "y"}
Vals == {"1", "2"}
Unbound == "Unbound"
NoCmd == [type |-> "none", code |-> <<>>]
NoStmt == [op |-> "none", name |-> None, val |-> None]
EmptyNamespace == [n \in Names |-> Unbound]

\* the process runs one program, not a session
NoSession ==
  /\ sess = "none"
  /\ namespace = EmptyNamespace
  /\ code = <<>>
  /\ cmds = 0
  /\ lastCmd = NoCmd
  /\ lastStmt = NoStmt

Init == Boot(TaskIds) /\ NoSession

\* the ids of the batched request frames among q
BatchedIds(q) ==
  {q[k].id : k \in {j \in 1..Len(q) : q[j].tag = "GORU" /\ q[j].id # Absent}}

\* stderr.write of call frames, and of a flush marker, in one step
Write(frames) ==
  /\ wrote' = frames
  /\ stderrTail' = stderrTail \o frames
  /\ framed' = framed \cup BatchedIds(frames)
WriteMarker(frames) ==
  /\ wrote' = frames
  /\ stderrTail' = <<>>
  /\ framed' = framed \cup BatchedIds(frames)
NoWrite == wrote' = <<>> /\ UNCHANGED <<stderrTail, framed>>

\* a step that reads no line, ends no blocking call and is not part of flush
NoLine == lastLine' = NoLineRead
NoSync == lastSync' = NoOutcome
NoQueue == queued' = None
NoFlush ==
  /\ flushCount' = 0 /\ flushI' = 0 /\ flushStart' = {} /\ flushSeen' = <<>>
  /\ flushGood' = TRUE /\ flushDone' = {} /\ resolved' = NoFuture
  /\ flushNew' = 0
  /\ flushStatus' = "none"
Quiet == NoLine /\ NoSync /\ NoQueue /\ NoFlush /\ UNCHANGED histVars

(* ------------------------- asyncio.Future ----------------------------- *)
\* The done-callbacks of a future are handed to call_soon of the loop the
\* future belongs to; those of a future of an earlier loop land in that
\* loop's deque, which nothing drains any more.
Scheduled(f) == IF f.loop = runs THEN f.callbacks ELSE <<>>

\* the handles go in front of the ones already queued
CallSoonAllFront(q, hs) == hs \o q

\* lines 110-114, called once per done-callback in the order of their
\* registration: the handles are appended
CallSoonAll(q, hs) == q \o hs

\* Future.set_result (exc = NoExc) / Future.set_exception on a pending future
Resolved(f, val, exc) ==
  [f EXCEPT !.state = "FINISHED", !.result = val, !.exception = exc,
            !.callbacks = <<>>]

\* Future.cancel on a pending future
Cancelled(f) == [f EXCEPT !.state = "CANCELLED", !.callbacks = <<>>]

\* What `await` hands to the coroutines of the tasks in waiters when the
\* future or task they wait for is done with outcome what.
Delivered(tk, waiters, what) ==
  [t \in DOMAIN tk |->
     IF \E k \in 1..Len(waiters) : waiters[k] = t
     THEN [tk[t] EXCEPT !.got = what] ELSE tk[t]]

(* --------------------------- _goru_call ------------------------------- *)
\* the frame carries a correlation id
GoruCallFramesWithId == <<CallFrame(Str(next_id))>>

\* lines 10-11: the request frame of a blocking call
GoruCallFrames == <<CallFrame(Absent)>>

\* resp["data"] in place of resp.get("data")
GoruCallOutcomeStrict(line) ==
  IF ~line.json THEN [kind |-> "raise", val |-> None, exc |-> "JSONDecodeError"]
  ELSE IF HasError(line)
       THEN [kind |-> "raise", val |-> line.error, exc |-> "RuntimeError"]
       ELSE IF line.data = Absent
            THEN [kind |-> "raise", val |-> None, exc |-> "KeyError"]
            ELSE [kind |-> "return", val |-> line.data, exc |-> NoExc]

\* lines 12-15: what the call does with the line it read
GoruCallOutcome(line) ==
  IF ~line.json THEN [kind |-> "raise", val |-> None, exc |-> "JSONDecodeError"]
  ELSE IF HasError(line)
       THEN [kind |-> "raise", val |-> line.error, exc |-> "RuntimeError"]
       ELSE [kind |-> "return", val |-> Get(line.data), exc |-> NoExc]

\* lines 8-11: write the frame, then block in input().  Called by guest code
\* at top level or from inside a running coroutine.
GoruCallWrite ==
  /\ UNCHANGED sessVars
  /\ pc \in {"top", "callback"}
  /\ syncCalls < MaxSync
  /\ Write(GoruCallFrames)
  /\ syncCalls' = syncCalls + 1
  /\ pc' = "sync_read"
  /\ Quiet
  /\ UNCHANGED <<batchVars, loopVars>>

\* lines 12-15: input() returns one line; the call returns or raises to its
\* caller, which goes on running.
GoruCallRead ==
  /\ UNCHANGED sessVars
  /\ pc = "sync_read"
  /\ \E line \in SyncLines :
       /\ lastLine' = line
       /\ lastSync' = GoruCallOutcome(line)
  /\ pc' = IF current = 0 THEN "top" ELSE "callback"
  /\ NoFlush /\ NoQueue
  /\ NoWrite
  /\ UNCHANGED <<syncCalls, batchVars, loopVars, histVars>>

(* --------------------------- _AsyncBatch ------------------------------ *)
\* the counter is left as it was
NextIdStuck(n) == n

\* line 30
NextId(n) == n + 1

\* line 31: self.pending[req_id] = future
Put(p, id, f) == [k \in DOMAIN p \cup {id} |-> IF k = id THEN f ELSE p[k]]

\* the entry is read but not removed
PopKeeps(p, id) == p

\* line 48: self.pending.pop(req_id), the map that is left
Pop(p, id) == [k \in DOMAIN p \ {id} |-> p[k]]

\* some entry is taken, whatever its key
PoppedAny(p, id) == p[CHOOSE k \in DOMAIN p : TRUE]

\* line 48: self.pending.pop(req_id), the future that is returned
Popped(p, id) == p[id]

\* the test for an empty map is missing
FlushNeverNoop(p) == FALSE

\* line 38: `if not self.pending`
FlushIsNoop(p) == DOMAIN p = {}

\* every call ever queued is counted
FlushCountTotal(p) == next_id

\* line 40: count = len(self.pending)
FlushCountOf(p) == Cardinality(DOMAIN p)

\* the loop runs one pass short
FlushLoopDoneEarly(i, count) == i >= count - 1

\* line 43: `for _ in range(count)` has run i times
FlushLoopDone(i, count) == i >= count

\* the request frame is kept back until the flush
QueueFramesDeferred(req_id) == <<>>

\* lines 32-33: the request frame of a batched call
QueueFrames(req_id) == <<CallFrame(req_id)>>

\* line 34: what queue returns
QueueReturn(req_id) == req_id

\* lines 41-42: the flush marker
FlushFrames(count) == <<FlushFrame(count)>>

\* a data field is looked at before the error field
FlushOutcomeDataFirst(resp) ==
  IF resp.data # Absent
  THEN [kind |-> "return", val |-> resp.data, exc |-> NoExc]
  ELSE IF HasError(resp)
       THEN [kind |-> "raise", val |-> None, exc |-> resp.error]
       ELSE [kind |-> "return", val |-> None, exc |-> NoExc]

\* lines 49-52: how a response resolves the future it matched
FlushOutcome(resp) ==
  IF HasError(resp)
  THEN [kind |-> "raise", val |-> None, exc |-> resp.error]
  ELSE [kind |-> "return", val |-> Get(resp.data), exc |-> NoExc]

\* the entry is popped without the test of line 47: KeyError on an id that
\* is not a key of pending
FlushRaisesOnUnknown(line, stale) ==
  ~line.json \/ stale \/ Get(line.id) \notin DOMAIN pending

\* a response that carries an error makes flush itself raise
FlushRaisesOnError(line, stale) == ~line.json \/ stale \/ HasError(line)

\* lines 45 and 50-52: what makes flush raise: json.loads rejects the line,
\* or set_result / set_exception finds the future done already
FlushRaises(line, stale) == ~line.json \/ stale

\* lines 56-62 and 27-34: _async_call creates a future on the running loop
\* and queues the call; task t keeps running.
AsyncCall(t) ==
  /\ UNCHANGED sessVars
  /\ pc = "callback" /\ current = t
  /\ next_id < MaxId
  /\ LET req_id == Str(next_id)
     IN /\ next_id' = NextId(next_id)
        /\ pending' = Put(pending, req_id, NewFuture(next_id, runs))
        /\ Write(QueueFrames(req_id))
        /\ queued' = QueueReturn(req_id)
  /\ sinceDone' = sinceDone + 1
  /\ NoLine /\ NoSync /\ NoFlush
  /\ UNCHANGED <<pc, syncCalls, loopVars, leftover>>

\* the batched request frames among q
Batched(q) == SelectSeq(q, LAMBDA fr : fr.tag = "GORU" /\ fr.id # Absent)

\* lines 36-42: flush is called by run_until_complete when _run_once has
\* drained the ready queue.  It returns at once on an empty map, otherwise it
\* writes the marker and starts reading.
FlushCall ==
  /\ UNCHANGED sessVars
  /\ pc = "run_once" /\ ready = <<>>
  /\ IF FlushIsNoop(pending)
     THEN /\ flushStatus' = "noop"
          /\ flushCount' = 0
          /\ flushStart' = {}
          /\ flushNew' = 0
          /\ pc' = "loop_check"
          /\ NoWrite
     ELSE /\ WriteMarker(FlushFrames(FlushCountOf(pending)))
          /\ flushCount' = FlushCountOf(pending)
          /\ flushStart' = DOMAIN pending
          /\ flushNew' = Len(Batched(stderrTail))
          /\ IF FlushLoopDone(0, FlushCountOf(pending))
             THEN flushStatus' = "returned" /\ pc' = "loop_check"
             ELSE flushStatus' = "reading" /\ pc' = "flush_read"
  /\ flushI' = 0
  /\ flushSeen' = <<>>
  /\ flushGood' = TRUE
  /\ flushDone' = {}
  /\ resolved' = NoFuture
  /\ NoLine /\ NoSync /\ NoQueue
  /\ UNCHANGED <<batchVars, syncCalls, loopVars, histVars>>

\* lines 44-52: one pass of the loop body on the line input() returned.
\* raised: json.loads rejected the line, or set_result / set_exception found
\* the future already done (asyncio raises InvalidStateError).
FlushStep(line) ==
  LET req_id == Get(line.id)
      found  == line.json /\ req_id \in DOMAIN pending
      f      == Popped(pending, req_id)
      o      == FlushOutcome(line)
      stale  == found /\ f.state # "PENDING"
      hit    == found /\ ~stale
      what   == IF o.kind = "raise" THEN "HostError" ELSE "value"
  IN [raised |-> FlushRaises(line, stale),
      hit    |-> hit,
      pend   |-> IF found THEN Pop(pending, req_id) ELSE pending,
      future |-> IF hit THEN Resolved(f, o.val, o.exc) ELSE NoFuture,
      rdy    |-> IF hit THEN CallSoonAll(ready, Scheduled(f)) ELSE ready,
      tasks  |-> IF hit THEN Delivered(task, Scheduled(f), what) ELSE task]

\* the host answers a key of flushStart it has not answered in this flush
Range(q) == {q[k] : k \in 1..Len(q)}
Answers(line) == line.json /\ line.id \in flushStart \ Range(flushSeen)

\* An exception leaves flush and run_until_complete (lines 85-87) and reaches
\* the guest code that called run_async.
FlushRead ==
  /\ UNCHANGED sessVars
  /\ pc = "flush_read"
  /\ \E line \in Lines :
       LET r == FlushStep(line)
       IN /\ lastLine' = line
          /\ flushGood' = (flushGood /\ Answers(line))
          /\ flushSeen' = IF flushGood /\ Answers(line)
                          THEN Append(flushSeen, line.id) ELSE <<>>
          /\ pending' = r.pend
          /\ resolved' = r.future
          /\ flushDone' = IF r.hit THEN flushDone \cup {line.id} ELSE flushDone
          /\ ready' = r.rdy
          /\ task' = r.tasks
          /\ IF r.raised
             THEN /\ flushStatus' = "raised"
                  /\ pc' = "top"
                  /\ runResult' = "raised"
                  /\ leftover' = DOMAIN r.pend
                  /\ UNCHANGED sinceDone
             ELSE /\ IF FlushLoopDone(flushI + 1, flushCount)
                     THEN /\ flushStatus' = "returned" /\ pc' = "loop_check"
                          /\ leftover' = DOMAIN r.pend
                          /\ sinceDone' = 0
                     ELSE /\ flushStatus' = "reading" /\ pc' = "flush_read"
                          /\ UNCHANGED histVars
                  /\ UNCHANGED runResult
  /\ flushI' = flushI + 1
  /\ NoSync /\ NoQueue /\ NoWrite
  /\ UNCHANGED <<next_id, current, runs, flushCount, flushStart,
                 flushNew, syncCalls>>

(* --------------------------- WASIEventLoop ---------------------------- *)
\* the handle is put at the head of the deque
CallSoonFront(q, h) == <<h>> \o q

\* lines 110-114: call_soon appends the handle
CallSoon(q, h) == Append(q, h)

\* the top-level task of run_until_complete
TopTask == 1

\* lines 119-120: a fresh loop replaces the previous one.  The wakeups that
\* tasks of the previous loop registered on futures still pending belong to
\* that loop, which never runs again: nothing reads them any more, and the
\* model drops them.
Orphaned(p) == [k \in DOMAIN p |-> [p[k] EXCEPT !.callbacks = <<>>]]

\* lines 123-126, 119-121, 76-80: run_async makes a fresh loop and wraps the
\* coroutine in a task, whose first step is handed to call_soon.
RunAsync ==
  /\ UNCHANGED sessVars
  /\ pc = "top"
  /\ runs < MaxRuns
  /\ runs' = runs + 1
  /\ task' = [t \in DOMAIN task |->
                IF t = TopTask THEN [NoTask EXCEPT !.st = "READY"] ELSE NoTask]
  /\ ready' = CallSoon(<<>>, TopTask)
  /\ current' = 0
  /\ runResult' = "none"
  /\ pc' = "run_once"
  /\ pending' = Orphaned(pending)
  /\ Quiet /\ NoWrite
  /\ UNCHANGED <<next_id, syncCalls>>

\* lines 91-94: _run_once pops the next handle and runs it; the handle
\* resumes the coroutine of its task.  The handles in the queue are the ones
\* asyncio makes for the steps and wakeups of tasks; it keeps no reference to
\* them and never cancels one, so the test of line 93 lets every one run.
RunOncePop ==
  /\ UNCHANGED sessVars
  /\ pc = "run_once" /\ ready # <<>>
  /\ LET t == Head(ready)
     IN /\ ready' = Tail(ready)
        /\ task' = [task EXCEPT ![t].st = "RUNNING"]
        /\ current' = t
  /\ pc' = "callback"
  /\ Quiet /\ NoWrite
  /\ UNCHANGED <<batchVars, syncCalls, runs, runResult>>

\* lines 82 and 88: after _run_once and flush, the loop stops when the
\* top-level task is done and hands its result or failure to the caller.
LoopTest ==
  /\ UNCHANGED sessVars
  /\ pc = "loop_check"
  /\ IF task[TopTask].st = "DONE"
     THEN pc' = "top" /\ runResult' = task[TopTask].out
     ELSE pc' = "run_once" /\ UNCHANGED runResult
  /\ Quiet /\ NoWrite
  /\ UNCHANGED <<batchVars, syncCalls, task, ready, current, runs>>

(* ------------------------- guest coroutines --------------------------- *)
\* the coroutine of task t leaves the thread of control to _run_once
Suspend == current' = 0 /\ pc' = "run_once"

\* `await future` on a batched call's future that is not done: the task
\* registers its wakeup as a done-callback and suspends.
AwaitCall(t, id) ==
  /\ UNCHANGED sessVars
  /\ pc = "callback" /\ current = t
  /\ id \in DOMAIN pending
  /\ pending[id].state = "PENDING" /\ pending[id].loop = runs
  /\ pending' = [pending EXCEPT ![id].callbacks = Append(@, t)]
  /\ task' = [task EXCEPT ![t].st = "WAITING", ![t].got = "none"]
  /\ Suspend
  /\ Quiet /\ NoWrite
  /\ UNCHANGED <<next_id, syncCalls, ready, runs, runResult>>

\* `await task` on another task that is not done
AwaitTask(t, u) ==
  /\ UNCHANGED sessVars
  /\ pc = "callback" /\ current = t
  /\ u # t /\ task[u].st \in {"READY", "WAITING"}
  /\ task' = [task EXCEPT ![t].st = "WAITING", ![t].got = "none",
                          ![u].callbacks = Append(@, t)]
  /\ Suspend
  /\ Quiet /\ NoWrite
  /\ UNCHANGED <<batchVars, syncCalls, ready, runs, runResult>>

\* lines 106-108: create_task; the new task's first step goes to call_soon
Spawn(t) ==
  /\ UNCHANGED sessVars
  /\ pc = "callback" /\ current = t
  /\ \E u \in DOMAIN task :
       /\ task[u].st = "NONE"
       /\ \A v \in DOMAIN task : task[v].st = "NONE" => u <= v
       /\ task' = [task EXCEPT ![u].st = "READY"]
       /\ ready' = CallSoon(ready, u)
  /\ Quiet /\ NoWrite
  /\ UNCHANGED <<batchVars, syncCalls, current, pc, runs, runResult>>

\* the ways a coroutine can end
Outs == {"result", "exception", "HostError"}

\* The coroutine returns (out = "result"), raises an exception of its own
\* (out = "exception") or lets the failure of a batched call that its await
\* raised escape (out = "HostError"); the task is done, its done-callbacks
\* are scheduled, and the tasks awaiting it get its result or its exception.
Finish(t, out) ==
  /\ UNCHANGED sessVars
  /\ pc = "callback" /\ current = t
  /\ out = "HostError" => task[t].got = "HostError"
  /\ task' = Delivered([task EXCEPT ![t].st = "DONE", ![t].out = out,
                                    ![t].callbacks = <<>>, ![t].got = "none"],
                       task[t].callbacks,
                       IF out = "result" THEN "value" ELSE out)
  /\ ready' = CallSoonAll(ready, task[t].callbacks)
  /\ Suspend
  /\ Quiet /\ NoWrite
  /\ UNCHANGED <<batchVars, syncCalls, runs, runResult>>

\* guest code cancels the future of a batched call that is still pending
CancelCall(t, id) ==
  /\ UNCHANGED sessVars
  /\ pc = "callback" /\ current = t
  /\ id \in DOMAIN pending
  /\ pending[id].state = "PENDING"
  /\ pending' = [pending EXCEPT ![id] = Cancelled(pending[id])]
  /\ ready' = CallSoonAll(ready, Scheduled(pending[id]))
  /\ task' = Delivered(task, Scheduled(pending[id]), "CancelledError")
  /\ Quiet /\ NoWrite
  /\ UNCHANGED <<next_id, syncCalls, current, pc, runs, runResult>>

Guest ==
  \E t \in DOMAIN task :
    \/ AsyncCall(t)
    \/ \E id \in QueuedIds : AwaitCall(t, id)
    \/ \E u \in DOMAIN task : AwaitTask(t, u)
    \/ Spawn(t)
    \/ \E out \in Outs : Finish(t, out)
    \/ \E id \in QueuedIds : CancelCall(t, id)

Next ==
  \/ GoruCallWrite
  \/ GoruCallRead
  \/ RunAsync
  \/ RunOncePop
  \/ FlushCall
  \/ FlushRead
  \/ LoopTest
  \/ Guest

Spec == Init /\ [][Next]_vars

\* The event loop on its own: one run_async of a program of up to
\* MaxLoopTasks tasks that issue and await batched calls and wait for each
\* other, but make no blocking call and cancel nothing.
InitLoop == Boot(LoopTaskIds) /\ NoSession

FirstRun == runs = 0 /\ RunAsync

GuestLoop ==
  \E t \in DOMAIN task :
    \/ AsyncCall(t)
    \/ \E id \in QueuedIds : AwaitCall(t, id)
    \/ \E u \in DOMAIN task : AwaitTask(t, u)
    \/ Spawn(t)
    \/ \E out \in Outs : Finish(t, out)

NextLoop ==
  \/ FirstRun
  \/ RunOncePop
  \/ FlushCall
  \/ FlushRead
  \/ LoopTest
  \/ GuestLoop

SpecLoop == InitLoop /\ [][NextLoop]_vars

(* ---------------------------- session loop ---------------------------- *)
\* The session loop (section 4.5 of the specification): a persistent loop
\* that reads commands from the control input, runs the code of each in one
\* shared namespace and reports the end of each through the out-of-band
\* channel.  The bridge is at rest while the loop is looked at.

\* a statement of guest code binds a name, reads a name or raises
Stmts ==
  [op : {"bind"}, name : Names, val : Vals] \cup
  [op : {"use"}, name : Names, val : {None}] \cup
  [op : {"raise"}, name : {None}, val : {None}]

\* code payloads: up to MaxStmts statements
RECURSIVE SeqsUpTo(_, _)
SeqsUpTo(S, n) ==
  IF n = 0 THEN {<<>>}
  ELSE LET shorter == SeqsUpTo(S, n - 1)
       IN shorter \cup {Append(q, x) : q \in shorter, x \in S}
Payloads == SeqsUpTo(Stmts, MaxStmts)

\* the lines of the control input, and its end
ExecCmds == [type : {"exec"}, code : Payloads]
ExitCmd == [type |-> "exit", code |-> <<>>]
EndOfInput == [type |-> "eof", code |-> <<>>]
ControlLines == ExecCmds \cup {ExitCmd, EndOfInput}

\* the markers of session mode
ReadyMarker == [tag |-> "GORU_READY", id |-> Absent, count |-> 0, text |-> <<>>]
DoneMarker == [tag |-> "GORU_DONE", id |-> Absent, count |-> 0, text |-> <<>>]
ErrorMarker(category, message) ==
  [tag |-> "GORU_ERROR", id |-> Absent, count |-> 0,
   text |-> <<category, message>>]

\* the failure a statement raises in namespace ns, if any
NoFailure == [category |-> "none", message |-> None]
Failure(stmt, ns) ==
  IF stmt.op = "raise"
  THEN [category |-> "RuntimeError", message |-> "e"]
  ELSE IF stmt.op = "use" /\ ns[stmt.name] = Unbound
       THEN [category |-> "NameError", message |-> stmt.name]
       ELSE NoFailure

\* the namespace after statement stmt ran to its end
Bound(stmt, ns) ==
  IF stmt.op = "bind" THEN [ns EXCEPT ![stmt.name] = stmt.val] ELSE ns

\* after a failure the namespace is thrown away
AfterFailureFresh(ns) == EmptyNamespace

\* the namespace the loop goes on with after a command failed
AfterFailure(ns) == ns

\* the state of the loop after a command failed
StateAfterFailure == "awaiting"

\* a step of the session loop leaves the bridge at rest
BridgeAtRest == Quiet /\ UNCHANGED <<batchVars, loopVars, pc, syncCalls>>

InitSession ==
  /\ Boot(TaskIds)
  /\ sess = "boot"
  /\ namespace = EmptyNamespace
  /\ code = <<>>
  /\ cmds = 0
  /\ lastCmd = NoCmd
  /\ lastStmt = NoStmt

\* on entry the loop signals readiness once
SessionStart ==
  /\ sess = "boot"
  /\ Write(<<ReadyMarker>>)
  /\ sess' = "awaiting"
  /\ lastCmd' = NoCmd /\ lastStmt' = NoStmt
  /\ UNCHANGED <<namespace, code, cmds>>
  /\ BridgeAtRest

\* the loop reads one command: an execute command starts running its code,
\* an exit command or the end of the input ends the loop without a marker
ReadCommand ==
  /\ sess = "awaiting"
  /\ \E c \in ControlLines :
       /\ c.type = "exec" => cmds < MaxCmds
       /\ lastCmd' = c
       /\ IF c.type = "exec"
          THEN sess' = "executing" /\ code' = c.code
          ELSE sess' = "terminated" /\ code' = <<>>
  /\ cmds' = cmds + 1
  /\ lastStmt' = NoStmt
  /\ NoWrite
  /\ UNCHANGED namespace
  /\ BridgeAtRest

\* the next statement of the command runs against the shared namespace; a
\* failure ends the command with an error marker and the loop goes on
ExecStatement ==
  /\ sess = "executing" /\ code # <<>>
  /\ LET stmt == Head(code)
         fail == Failure(stmt, namespace)
     IN IF fail = NoFailure
        THEN /\ namespace' = Bound(stmt, namespace)
             /\ code' = Tail(code)
             /\ lastStmt' = stmt
             /\ NoWrite
             /\ UNCHANGED sess
        ELSE /\ Write(<<ErrorMarker(fail.category, fail.message)>>)
             /\ namespace' = AfterFailure(namespace)
             /\ sess' = StateAfterFailure
             /\ code' = <<>>
             /\ lastStmt' = NoStmt
  /\ lastCmd' = NoCmd
  /\ UNCHANGED cmds
  /\ BridgeAtRest

\* the code of the command ran to its end: the done marker
ExecDone ==
  /\ sess = "executing" /\ code = <<>>
  /\ Write(<<DoneMarker>>)
  /\ sess' = "awaiting"
  /\ lastCmd' = NoCmd /\ lastStmt' = NoStmt
  /\ UNCHANGED <<namespace, code, cmds>>
  /\ BridgeAtRest

NextSession ==
  \/ SessionStart
  \/ ReadCommand
  \/ ExecStatement
  \/ ExecDone

SpecSession == InitSession /\ [][NextSession]_vars

(* ======================= flush: count and lines ======================= *)
\* number of entries the flush in progress (or just ended) found
FlushN == Cardinality(flushStart)
InFlush == flushStatus \in {"reading", "returned", "raised"}

\* C1: a flush that finds N > 0 pending entries writes exactly one flush
\* marker, carrying N, in the step that invokes it and nothing afterwards;
\* every pass consumes one inbound line; it never consumes more than N lines
\* and it returns only when it has consumed exactly N, whatever ids the
\* lines carry.
C1_FlushReadsExactlyN ==
  InFlush =>
    /\ FlushN > 0
    /\ flushI <= FlushN
    /\ (flushStatus = "returned" => flushI = FlushN)
    /\ (flushStatus = "reading" => flushI < FlushN)
    /\ (flushI = 0 => wrote = <<FlushFrame(FlushN)>> /\ lastLine = NoLineRead)
    /\ (flushI > 0 => wrote = <<>> /\ lastLine \in Lines)

\* C1, witness: a flush of three entries has returned after lines that did not all answer
\* its entries
C1_Witness ==
  flushStatus = "returned" /\ FlushN = 3 /\ flushI = 3 /\ ~flushGood

\* C2: when the host answers a flush with one response per outstanding id,
\* in any order, then at the return of flush every entry that was in the map
\* at its invocation has been resolved and removed, and the map is empty.
C2_FlushResolvesAll ==
  (flushStatus = "returned" /\ flushGood) =>
    /\ Range(flushSeen) = flushStart
    /\ flushDone = flushStart
    /\ DOMAIN pending = {}

\* C2, witness: three entries answered in the order 2, 0, 1
C2_Witness ==
  /\ flushStatus = "returned" /\ flushGood
  /\ flushSeen = <<"2", "0", "1">>
  /\ pending = EmptyMap

\* C3: a response resolves the pending entry whose correlation id equals its
\* own id, with its own data or error, and touches no other entry: the
\* future queued under id Str(n) is future n.
C3_Step ==
  /\ \A k \in DOMAIN pending : Str(pending[k].fid) = k
  /\ pc = "flush_read" =>
       LET id == lastLine'.id
           hit == /\ lastLine'.json /\ id \in DOMAIN pending
                  /\ pending[id].state = "PENDING"
       IN /\ hit =>
               /\ Str(resolved'.fid) = id
               /\ resolved'.fid = pending[id].fid
               /\ resolved'.state = "FINISHED"
               /\ IF HasError(lastLine')
                  THEN resolved'.exception = lastLine'.error
                  ELSE /\ resolved'.exception = NoExc
                       /\ resolved'.result = Get(lastLine'.data)
          /\ ~hit => resolved' = NoFuture
          /\ \A k \in DOMAIN pending \ {id} :
               k \in DOMAIN pending' /\ pending'[k] = pending[k]
          /\ DOMAIN pending' \subseteq DOMAIN pending

\* C3: every step of the program matches responses to entries by id
C3_MatchById == [][C3_Step]_vars

\* C3, witness: ids 0, 1, 2 were enqueued and the first answer, for id 2, resolved future
\* 2 with its data while 0 and 1 stay pending
C3_Witness ==
  /\ flushStart = {"0", "1", "2"} /\ flushSeen = <<"2">>
  /\ resolved.fid = 2 /\ resolved.result = "a"
  /\ DOMAIN pending = {"0", "1"}

(* ============================ correlation ids ========================= *)
\* C4: queue assigns Str(next_id) and advances next_id, next_id never goes
\* back (no run_async resets it), so ids are unique and increasing over the
\* process lifetime; the id assigned is never a key of pending already and
\* every key of pending is an id assigned earlier.
C4_Step ==
  /\ next_id' >= next_id
  /\ \A k \in DOMAIN pending : \E n \in 0..(next_id - 1) : k = Str(n)
  /\ (wrote' # <<>> /\ wrote'[1].tag = "GORU" /\ wrote'[1].id # Absent) =>
       /\ wrote' = <<CallFrame(Str(next_id))>>
       /\ next_id' > next_id
       /\ Str(next_id) \notin DOMAIN pending
       /\ DOMAIN pending' = DOMAIN pending \cup {Str(next_id)}
       /\ \A k \in DOMAIN pending : pending'[k] = pending[k]

\* C4: every step of the program keeps the ids unique and increasing
C4_IdsIncrease == [][C4_Step]_vars

\* C4, witness: id 2 is assigned on the second loop while an entry queued on the first
\* loop is still pending
C4_Witness ==
  /\ runs = 2 /\ wrote = <<CallFrame("2")>>
  /\ \E k \in DOMAIN pending : pending[k].loop = 1

(* ===================== pending entries and frames ===================== *)
TailIds == {Batched(stderrTail)[k].id : k \in 1..Len(Batched(stderrTail))}

\* C5, as claimed: in every reachable state the number of entries in pending
\* equals the number of batched request frames written since the last flush
\* that completed, and a flush marker carries the number of batched request
\* frames written since the previous marker.
C5_Original ==
  /\ Cardinality(DOMAIN pending) = sinceDone
  /\ (InFlush /\ flushI = 0) => wrote = <<FlushFrame(flushNew)>>

\* C5, amended: while no flush is reading, pending holds one entry for each
\* batched request frame written since the latest flush marker and the
\* entries the latest flush left unresolved when it ended, and nothing else;
\* a flush marker carries the number of batched request frames written since
\* the previous marker plus the number of entries the previous flush left.
C5_PendingCount ==
  /\ flushStatus # "reading" =>
       /\ DOMAIN pending = leftover \cup TailIds
       /\ leftover \cap TailIds = {}
       /\ Cardinality(TailIds) = Len(Batched(stderrTail))
       /\ Cardinality(DOMAIN pending) =
            Len(Batched(stderrTail)) + Cardinality(leftover)
  /\ (InFlush /\ flushI = 0) =>
       wrote = <<FlushFrame(flushNew + Cardinality(leftover))>>

\* C5, witness: a marker is written for one new frame and one entry the previous flush
\* left unresolved
C5_Witness ==
  /\ flushStatus = "reading" /\ flushI = 0
  /\ flushNew = 1 /\ Cardinality(leftover) = 1
  /\ wrote = <<FlushFrame(2)>>

(* ========================= errors and absence ========================= *)
\* a blocking call has just ended on the line lastLine
SyncEnded == lastSync.kind # "none"
\* a pass of flush has just resolved a future with the line lastLine
FlushResolved == resolved # NoFuture

\* C6: a response with an error field is delivered as a failure carrying the
\* host's message, never as a success, with or without a data field: the
\* blocking call raises RuntimeError(message), flush sets the exception on
\* the matching future and no result.
C6_ErrorIsFailure ==
  /\ (SyncEnded /\ lastLine.json /\ HasError(lastLine)) =>
       /\ lastSync.kind = "raise"
       /\ lastSync.exc = "RuntimeError"
       /\ lastSync.val = lastLine.error
  /\ (FlushResolved /\ HasError(lastLine)) =>
       /\ resolved.state = "FINISHED"
       /\ resolved.exception = lastLine.error
       /\ resolved.result = None
  /\ (SyncEnded /\ lastSync.kind = "return") => ~HasError(lastLine)
  /\ (FlushResolved /\ resolved.exception = NoExc) => ~HasError(lastLine)

\* C6, witness: flush has resolved a future with the error of a response that carries
\* data as well
C6_Witness ==
  /\ FlushResolved /\ lastLine.error = "e" /\ lastLine.data = "a"
  /\ resolved.exception = "e"

\* C7: a response with neither error nor data completes the call with None:
\* the blocking call returns None, the batched future gets the result None
\* and no exception; a host error and an undecodable line both raise.
C7_AbsentDataIsNone ==
  /\ (SyncEnded /\ lastLine.json /\ ~HasError(lastLine)
        /\ lastLine.data = Absent) =>
       lastSync = [kind |-> "return", val |-> None, exc |-> NoExc]
  /\ (FlushResolved /\ ~HasError(lastLine) /\ lastLine.data = Absent) =>
       /\ resolved.state = "FINISHED"
       /\ resolved.result = None
       /\ resolved.exception = NoExc
  /\ (SyncEnded /\ (~lastLine.json \/ HasError(lastLine))) =>
       lastSync.kind = "raise"

\* C7, witness: a blocking call issued by a coroutine has returned None for a response
\* without data
C7_Witness ==
  /\ pc = "callback" /\ lastSync.kind = "return" /\ lastSync.val = None
  /\ lastLine.json /\ lastLine.data = Absent

(* ============================ blocking call =========================== *)
\* C8: a blocking call writes exactly one request frame, without id, and
\* blocks; the next step consumes exactly one line and ends the call by a
\* return or a raise; neither step writes a flush marker or changes pending
\* or next_id.
C8_Step ==
  /\ (pc # "sync_read" /\ pc' = "sync_read") =>
       /\ wrote' = <<CallFrame(Absent)>>
       /\ lastLine' = NoLineRead
       /\ pending' = pending /\ next_id' = next_id
  /\ pc = "sync_read" =>
       /\ pc' # "sync_read"
       /\ lastLine' \in Lines
       /\ lastSync'.kind \in {"return", "raise"}
       /\ wrote' = <<>>
       /\ pending' = pending /\ next_id' = next_id
  /\ (pc' # "sync_read" /\ pc # "sync_read") => lastSync'.kind = "none"

\* C8: every blocking call is one frame without id, then one line
C8_BlockingCall == [][C8_Step]_vars

\* C8, witness: a blocking call issued while batched calls are pending has raised
C8_Witness ==
  /\ pc = "callback" /\ lastSync.kind = "raise" /\ lastLine \in Lines
  /\ DOMAIN pending # {}

\* C9, as claimed: whenever _goru_call is blocked on its read the pending
\* map is empty.
C9_NoCallInFlight == pc = "sync_read" => DOMAIN pending = {}

\* C9, amended: while _goru_call is blocked on its read the process does
\* nothing else: its one request frame, without id, is the last thing
\* written, no flush is in progress, and the only step possible is the read
\* that ends the call, which runs no callback and leaves pending, the tasks
\* and the ready queue as they are.  The pending map need not be empty:
\* batched request frames written before the blocking call stay unanswered
\* until the next flush.
C9_Step ==
  pc = "sync_read" =>
    /\ wrote = <<CallFrame(Absent)>>
    /\ flushStatus = "none"
    /\ pc' = (IF current = 0 THEN "top" ELSE "callback")
    /\ lastSync'.kind # "none"
    /\ wrote' = <<>>
    /\ flushStatus' = "none"
    /\ UNCHANGED <<pending, next_id, task, ready, current>>

\* C9, amended: nothing else happens while a blocking call waits
C9_BlockedAlone == [][C9_Step]_vars

\* C9, witness: a coroutine is blocked in _goru_call while two batched calls are pending
C9_Witness ==
  pc = "sync_read" /\ current # 0 /\ Cardinality(DOMAIN pending) = 2

(* ============================== empty flush =========================== *)
\* C10: flush invoked with an empty pending map writes nothing, reads
\* nothing, leaves pending and next_id as they are and returns.
C10_Step ==
  (pc = "run_once" /\ ready = <<>> /\ DOMAIN pending = {}) =>
    /\ wrote' = <<>>
    /\ lastLine' = NoLineRead
    /\ pending' = pending /\ next_id' = next_id
    /\ stderrTail' = stderrTail
    /\ flushStatus' = "noop"
    /\ pc' = "loop_check"

\* C10: every flush of an empty pending map is a no-op
C10_EmptyFlushNoop == [][C10_Step]_vars

\* C10, witness: an empty flush after ids have been used
C10_Witness == flushStatus = "noop" /\ next_id = 2 /\ pending = EmptyMap

(* =============================== enqueue ============================== *)
\* C11: queue records the pending entry under the new id and writes the
\* request frame carrying that id in the very step the call is issued, reads
\* no line, returns the id and leaves the caller running; so the frame of
\* every entry of pending is on stderr already, and every entry that a flush
\* marker counts had its frame written before the marker.
C11_Step ==
  /\ DOMAIN pending \subseteq framed
  /\ next_id' # next_id =>
       LET req_id == Str(next_id)
       IN /\ wrote' = <<CallFrame(req_id)>>
          /\ queued' = req_id
          /\ DOMAIN pending' = DOMAIN pending \cup {req_id}
          /\ pending'[req_id].state = "PENDING"
          /\ lastLine' = NoLineRead
          /\ pc' = pc /\ current' = current
  /\ (wrote' # <<>> /\ wrote'[1].tag = "GORU_FLUSH") =>
       /\ wrote'[1].count = Cardinality(DOMAIN pending)
       /\ DOMAIN pending \subseteq framed
       /\ framed' = framed
       /\ BatchedIds(stderrTail) \subseteq DOMAIN pending

\* C11: every step of the program enqueues by writing the frame at once
C11_EnqueueWritesFrame == [][C11_Step]_vars

\* C11, witness: a marker counts the entries 1 and 2, whose frames were written after
\* the previous marker, while the frame of entry 0 preceded that one
C11_Witness ==
  /\ wrote = <<FlushFrame(2)>> /\ flushStart = {"1", "2"}
  /\ framed = {"0", "1", "2"}

(* ======================= flush and the top-level task ================= *)
\* a flush marker is the frame just written
MarkerWritten == wrote # <<>> /\ wrote[1].tag = "GORU_FLUSH"

\* C12: wherever run_until_complete has flush emit a marker (and block on
\* the host), the ready queue is empty and the top-level task is not yet
\* complete: once the top-level task has completed, that run emits no
\* further flush marker.
C12_FlushBeforeCompletion ==
  MarkerWritten => ready = <<>> /\ task[TopTask].st # "DONE"

(* ===================== how run_until_complete ends ==================== *)
\* run_until_complete has returned the value or raised the failure of the
\* top-level task
RunReturned == pc = "top" /\ runResult \in Outs
\* run_until_complete was left by an exception of flush although every line
\* of that flush answered another entry it had announced
RunAbandoned == flushStatus = "raised" /\ flushGood
\* the loop of run_until_complete turns with nothing to run and nothing to
\* flush: _run_once and flush return at once, the top-level task is not
\* done, and no step of the loop changes any of this
Spinning ==
  /\ pc = "run_once" /\ ready = <<>> /\ DOMAIN pending = {}
  /\ task[TopTask].st # "DONE"

\* C13: run_until_complete stops exactly when the top-level task reports
\* completion, and then hands over the value or the failure of that task;
\* while the host answers every flush marker with one response per pending
\* id, nothing else ends it, and it never turns forever with an empty ready
\* queue and an empty pending map.
C13_StopsAtCompletion ==
  /\ RunReturned =>
       task[TopTask].st = "DONE" /\ runResult = task[TopTask].out
  /\ ~RunAbandoned
  /\ ~Spinning

(* ============================ the ready queue ========================= *)
\* the place of handle x in q, and whether a stands before b in q
Pos(q, x) == CHOOSE k \in 1..Len(q) : q[k] = x
Before(q, a, b) ==
  a \in Range(q) /\ b \in Range(q) /\ Pos(q, a) < Pos(q, b)

\* C14: callbacks handed to call_soon run in the order they were scheduled.
\* On one loop, a handle leaves the ready queue only by being run and only
\* from the head: while a stands before b, b stays queued and stays behind
\* a; a handle scheduled by this step, also by a callback running in the
\* drain pass, goes behind every handle already queued; and the drain pass
\* goes on to the next handle, never to flush, while the queue is not empty.
C14_Step ==
  /\ \A i, j \in 1..Len(ready) : ready[i] = ready[j] => i = j
  /\ runs' = runs =>
       /\ \A a, b \in DOMAIN task :
            Before(ready, a, b) =>
              /\ b \in Range(ready')
              /\ a \in Range(ready') => Before(ready', a, b)
       /\ \A a \in Range(ready) \cap Range(ready') :
            \A b \in Range(ready') \ Range(ready) : Before(ready', a, b)
       /\ \A a \in Range(ready) \ Range(ready') :
            /\ a = Head(ready)
            /\ pc = "run_once" /\ pc' = "callback" /\ current' = a
       /\ (pc = "run_once" /\ pc' = "callback") =>
            /\ current' = Head(ready)
            /\ ready' = Tail(ready)
  /\ (pc = "run_once" /\ ready # <<>>) => pc' = "callback"
  /\ (pc = "run_once" /\ pc' \in {"flush_read", "loop_check"}) => ready = <<>>

\* C14: every step of the event loop keeps the ready queue first in, first
\* out
C14_ReadyFifo == [][C14_Step]_vars

\* C14, witness: task 1 scheduled the first steps of tasks 2 and 3 in this order in one
\* drain pass and waits; task 2 is running while task 3 is still queued
C14_Witness ==
  /\ pc = "callback" /\ current = 2 /\ ready = <<3>>
  /\ task[3].st = "READY" /\ task[1].st = "WAITING"

(* ============================ deferred failure ======================== *)
\* the tasks whose await is registered on the future pending under id
Awaiting(id) == IF id \in DOMAIN pending THEN Range(pending[id].callbacks) ELSE {}

\* C15: the failure of a batched call is deferred.  The pass of flush that
\* reads a response carrying an error stores the failure in the matching
\* future and goes on (flush does not raise and run_until_complete is not
\* left); it touches only the tasks awaiting that call.  A task comes to hold
\* the failure only by awaiting the call, or by awaiting a task that let it
\* escape; a task ends with it only if it held it, and run_until_complete
\* raises it only if the top-level task ended with it.  The failure of a
\* blocking call is raised by the step that reads its response, at the call
\* site, and reaches no task by itself.
C15_Step ==
  /\ (pc = "flush_read" /\ resolved' # NoFuture /\ HasError(lastLine')) =>
       /\ flushStatus' \in {"reading", "returned"}
       /\ runResult' = runResult
       /\ resolved'.exception = lastLine'.error
       /\ \A t \in DOMAIN task :
            IF t \in Awaiting(lastLine'.id) /\ resolved'.loop = runs
            THEN task'[t].got = "HostError"
            ELSE task'[t] = task[t]
  /\ \A t \in DOMAIN task :
       (runs' = runs /\ task'[t].got = "HostError" /\ task[t].got # "HostError") =>
         \/ /\ pc = "flush_read" /\ HasError(lastLine')
            /\ t \in Awaiting(lastLine'.id)
         \/ \E u \in DOMAIN task :
              /\ t \in Range(task[u].callbacks)
              /\ task[u].got = "HostError" /\ task'[u].out = "HostError"
  /\ \A t \in DOMAIN task :
       (runs' = runs /\ task'[t].out = "HostError" /\ task[t].out # "HostError") =>
         task[t].got = "HostError" /\ current = t
  /\ (runResult' = "HostError" /\ runResult # "HostError") =>
       task[TopTask].out = "HostError"
  /\ (pc = "sync_read" /\ lastLine'.json /\ HasError(lastLine')) =>
       /\ lastSync'.kind = "raise" /\ lastSync'.val = lastLine'.error
       /\ pc' = (IF current = 0 THEN "top" ELSE "callback")
       /\ task' = task /\ runResult' = runResult

\* C15: every step of the program defers the failure of a batched call and
\* raises the failure of a blocking call at once
C15_DeferredFailure == [][C15_Step]_vars

\* C15, witness: a flush of two calls has returned; the first response carried an error
\* for the call task 1 awaits, the second resolved the call task 2 awaits
C15_Witness ==
  /\ flushStatus = "returned" /\ flushGood /\ FlushN = 2
  /\ task[1].got = "HostError" /\ task[2].got = "value"
  /\ ready = <<1, 2>> /\ DOMAIN pending = {}

(* ============================= session loop =========================== *)
\* the statement the loop is about to run fails
Failing == sess = "executing" /\ code # <<>> /\ Failure(Head(code), namespace) # NoFailure

\* C16: when an execute command fails, the loop emits an error marker with
\* the category and message of the failure, keeps the shared namespace with
\* every binding made so far, by earlier commands and by this one before it
\* failed, and is awaiting a command again; there it accepts an execute
\* command as before, whose code reads the bindings made earlier.  Only an
\* exit command or the end of the input moves the loop to terminated, and
\* that step emits no marker.
C16_Step ==
  /\ Failing =>
       /\ wrote' = <<ErrorMarker(Failure(Head(code), namespace).category,
                                 Failure(Head(code), namespace).message)>>
       /\ namespace' = namespace
       /\ sess' = "awaiting"
  /\ \A n \in Names : namespace[n] # Unbound => namespace'[n] # Unbound
  /\ (sess = "awaiting" /\ lastCmd'.type = "exec") =>
       sess' = "executing" /\ code' = lastCmd'.code /\ namespace' = namespace
  /\ (sess = "executing" /\ code # <<>> /\ Head(code).op = "use"
        /\ namespace[Head(code).name] # Unbound) =>
       /\ sess' = "executing" /\ wrote' = <<>>
       /\ lastStmt' = Head(code)
  /\ (sess' = "terminated" /\ sess # "terminated") =>
       /\ sess = "awaiting"
       /\ lastCmd' \in {ExitCmd, EndOfInput}
       /\ wrote' = <<>>

\* C16: every step of the session loop survives a failed command
C16_SessionSurvivesFailure == [][C16_Step]_vars

\* C16, witness: the first command bound y and then failed; the second command has just
\* read y
C16_Witness ==
  /\ sess = "executing" /\ cmds = 2
  /\ stderrTail = <<ReadyMarker, ErrorMarker("RuntimeError", "e")>>
  /\ lastStmt = [op |-> "use", name |-> "y", val |-> None]
  /\ namespace["y"] = "2"

(* ========================= lines that match nothing =================== *)
\* the line the pass of flush now starting reads is decodable and its id is
\* no key of pending; its id is missing, was answered earlier in this very
\* flush, or is otherwise unknown
Unmatched(line) ==
  pc = "flush_read" /\ line.json /\ Get(line.id) \notin DOMAIN pending

\* C17: a response whose id is not a key of pending is dropped silently: the
\* pass resolves no future, wakes no task, leaves pending as it is and raises
\* nothing; it counts as one of the announced lines all the same, so that
\* flush returns when the announced number of lines has been read.
C17_Step ==
  Unmatched(lastLine') =>
    /\ resolved' = NoFuture
    /\ pending' = pending
    /\ ready' = ready /\ task' = task
    /\ flushDone' = flushDone
    /\ runResult' = runResult
    /\ flushI' = flushI + 1
    /\ flushStatus' = (IF flushI + 1 = flushCount THEN "returned" ELSE "reading")
    /\ pc' = (IF flushI + 1 = flushCount THEN "loop_check" ELSE "flush_read")

\* C17: every pass of flush drops a line that matches no pending entry
C17_UnmatchedDropped == [][C17_Step]_vars

\* C17, witness: a flush of three has returned after an answer for id 0 and two lines
\* that matched nothing, the last a second answer for id 0; the entries 1 and
\* 2 are still pending
C17_Witness ==
  /\ flushStatus = "returned" /\ flushCount = 3 /\ flushI = 3
  /\ flushDone = {"0"} /\ lastLine.id = "0" /\ resolved = NoFuture
  /\ DOMAIN pending = {"1", "2"}

(* ========================== undecodable lines ========================= *)
\* the step just taken was a pass of flush that read a line it could not
\* decode
Desynced == flushStatus = "raised" /\ ~lastLine.json

\* C18: a line read during flush that cannot be decoded is unrecoverable for
\* the bridge: the pass that reads it abandons flush with a failure, and from
\* then on the guest process writes no protocol frame and reads no line.
C18_Step ==
  /\ (pc = "flush_read" /\ ~lastLine'.json) => flushStatus' = "raised"
  /\ Desynced => wrote' = <<>> /\ lastLine' = NoLineRead

\* C18: no step of the program uses the channel after an undecodable line
C18_DesyncIsFinal == [][C18_Step]_vars

(* ===================== callbacks of resolved calls ==================== *)
\* the tasks that the line the pass of flush now starting reads wakes up:
\* those awaiting the pending future the line resolves
Woken(line) ==
  IF /\ line.json /\ Get(line.id) \in DOMAIN pending
     /\ pending[Get(line.id)].state = "PENDING"
  THEN pending[Get(line.id)].callbacks
  ELSE <<>>

\* C19: no guest callback runs while a flush is in progress.  Flush starts
\* on an empty ready queue; each of its passes only appends the callbacks of
\* the call it resolves behind those of the calls resolved before, so the
\* queue holds them in the order of arrival of the responses, whatever their
\* ids; no coroutine is resumed until flush has left its loop, and a
\* coroutine is resumed only from the head of the ready queue.
C19_Step ==
  /\ (flushStatus = "reading" /\ flushI = 0) => ready = <<>>
  /\ pc = "flush_read" =>
       /\ current = 0 /\ current' = 0
       /\ pc' \in {"flush_read", "loop_check", "top"}
       /\ lastLine' \in Lines
       /\ ready' = ready \o Woken(lastLine')
       /\ \A t \in DOMAIN task : task'[t].st = task[t].st
  /\ (current' # 0 /\ current = 0) =>
       /\ pc = "run_once" /\ flushStatus # "reading"
       /\ current' = Head(ready) /\ ready' = Tail(ready)

\* C19: every step of the program keeps callbacks out of a flush in progress
\* and queues them in arrival order
C19_CallbacksAfterFlush == [][C19_Step]_vars

\* C19, witness: task 1 awaits call 0 and task 2 awaits call 1; the response for id 1
\* arrived first and the response for id 0, an error, second; flush has
\* returned with task 2 queued before task 1 and neither has run
C19_Witness ==
  /\ flushStatus = "returned" /\ flushSeen = <<"1", "0">>
  /\ lastLine.id = "0" /\ HasError(lastLine)
  /\ task[1].got = "HostError" /\ task[2].got = "value"
  /\ task[1].st = "WAITING" /\ task[2].st = "WAITING"
  /\ ready = <<2, 1>> /\ current = 0

(* ============================ cancelled calls ========================= *)
\* C20: a batched call cannot be aborted once enqueued.  An entry leaves
\* pending only in the pass of flush that reads a response carrying its id,
\* also after the guest cancelled its future; and a flush goes on to consume
\* every line it announced and to resolve the other entries of the round
\* when one of the pending futures was cancelled before its response
\* arrived: a decodable line never makes it raise.
C20_Step ==
  /\ \A k \in DOMAIN pending :
       k \notin DOMAIN pending' => pc = "flush_read" /\ lastLine'.id = k
  /\ (pc = "flush_read" /\ lastLine'.json) =>
       /\ flushStatus' \in {"reading", "returned"}
       /\ flushI + 1 < flushCount => pc' = "flush_read"

\* C20: every step of the program keeps a cancelled call pending until its
\* response is read and lets flush finish its round
C20_CancelledCallStays == [][C20_Step]_vars

====
